---- MODULE Spec2Model ----
(***************************************************************************)
(* A model of lox-interpreter-rs: the scanner (src/src/scanner.rs), the    *)
(* recursive-descent parser (src/src/parser.rs), the tree-walking          *)
(* evaluator (src/src/interpreter.rs), the diagnostics (src/src/error.rs)  *)
(* and the driver (src/src/main.rs).                                       *)
(*                                                                         *)
(* Text is modelled as TLA+ strings; a source is a sequence of characters, *)
(* each character a string.  A character outside ASCII is written by its   *)
(* code point name ("U+00E9") and has the UTF-8 width Utf8Len gives it.     *)
(* A 64-bit float is modelled as an exact signed rational plus the IEEE    *)
(* special values (signed zero, the infinities, NaN); rounding and         *)
(* overflow to infinity are outside the model, whose inputs are small.     *)
(***************************************************************************)
EXTENDS Integers, Sequences, FiniteSets, TLC

VARIABLES
    pc,                 \* where the driver (or the component under test) stands
    mode,               \* "repl" | "file": which entry point of main is running
    source,             \* the input unit handed to run: a sequence of characters
    tokens,             \* Parser.tokens: what Scanner::scan_tokens returned
    current,            \* Parser.current
    expression,         \* what Parser::parse returned: an Option<Expression>
    result,             \* what Interpreter::evaluate returned
    main_ERROR_FLAG,    \* main.rs: static ERROR_FLAG
    error_ERROR_FLAG,   \* error.rs: static ERROR_FLAG
    RUNTIME_ERROR_FLAG, \* error.rs: static RUNTIME_ERROR_FLAG
    stdout,             \* lines printed to stdout for the current input unit
    stderr              \* diagnostics printed to stderr for the current input unit

vars == <<pc, mode, source, tokens, current, expression, result, main_ERROR_FLAG,
          error_ERROR_FLAG, RUNTIME_ERROR_FLAG, stdout, stderr>>

(***************************************************************************)
(* Bounds of the model.                                                    *)
(***************************************************************************)
MaxSrcLen == 3      \* characters in an input unit
MaxToks == 3        \* tokens before Eof in a token sequence given to the parser
MaxNum == 2         \* numeric literals 0..MaxNum in the evaluator's inputs
StackLimit == 12    \* nested parser calls the process stack holds
MaxFracDigits == 16 \* fractional digits rendered for a float
MaxArgs == 3        \* command-line arguments after the program name
MaxLine == 3        \* line numbers handed to the reporting functions

(***************************************************************************)
(* Generic helpers.                                                        *)
(***************************************************************************)
RECURSIVE Gcd(_, _)
Gcd(a, b) == IF b = 0 THEN a ELSE Gcd(b, a % b)

RECURSIVE Concat(_)
Concat(chars) == IF chars = <<>> THEN "" ELSE Head(chars) \o Concat(Tail(chars))

RECURSIVE SeqsUpTo(_, _)
SeqsUpTo(S, n) ==
    IF n = 0 THEN {<<>>}
    ELSE LET shorter == SeqsUpTo(S, n - 1)
         IN  shorter \cup {Append(s, x) : s \in shorter, x \in S}

XOR(a, b) == (a /\ ~b) \/ (~a /\ b)

(***************************************************************************)
(* f64: the payload of Literal::Number and Value::Number.                  *)
(***************************************************************************)
NaN == [k |-> "nan", neg |-> FALSE, n |-> 0, d |-> 1]
Inf(neg) == [k |-> "inf", neg |-> neg, n |-> 0, d |-> 1]
Fin(neg, n, d) ==
    LET g == Gcd(n, d)
    IN  [k |-> "fin", neg |-> neg, n |-> n \div g, d |-> d \div g]
Num(i) == Fin(FALSE, i, 1)

IsNaN(x) == x.k = "nan"
IsInf(x) == x.k = "inf"
IsZero(x) == x.k = "fin" /\ x.n = 0
Signed(x) == IF x.neg THEN 0 - x.n ELSE x.n

F64Neg(x) == IF IsNaN(x) THEN NaN ELSE [x EXCEPT !.neg = ~x.neg]

F64Add(x, y) ==
    IF IsNaN(x) \/ IsNaN(y) THEN NaN
    ELSE IF IsInf(x) /\ IsInf(y) THEN (IF x.neg = y.neg THEN x ELSE NaN)
    ELSE IF IsInf(x) THEN x
    ELSE IF IsInf(y) THEN y
    ELSE LET s == Signed(x) * y.d + Signed(y) * x.d
         IN  IF s = 0 THEN Fin(x.neg /\ y.neg /\ x.n = 0 /\ y.n = 0, 0, 1)
             ELSE IF s < 0 THEN Fin(TRUE, 0 - s, x.d * y.d)
             ELSE Fin(FALSE, s, x.d * y.d)

F64Sub(x, y) == F64Add(x, F64Neg(y))

F64Mul(x, y) ==
    IF IsNaN(x) \/ IsNaN(y) THEN NaN
    ELSE IF (IsInf(x) /\ IsZero(y)) \/ (IsZero(x) /\ IsInf(y)) THEN NaN
    ELSE IF IsInf(x) \/ IsInf(y) THEN Inf(XOR(x.neg, y.neg))
    ELSE Fin(XOR(x.neg, y.neg), x.n * y.n, x.d * y.d)

F64Div(x, y) ==
    IF IsNaN(x) \/ IsNaN(y) THEN NaN
    ELSE IF (IsInf(x) /\ IsInf(y)) \/ (IsZero(x) /\ IsZero(y)) THEN NaN
    ELSE IF IsInf(x) \/ IsZero(y) THEN Inf(XOR(x.neg, y.neg))
    ELSE IF IsInf(y) THEN Fin(XOR(x.neg, y.neg), 0, 1)
    ELSE Fin(XOR(x.neg, y.neg), x.n * y.d, x.d * y.n)

\* IEEE 754 comparison: NaN is unordered and unequal to everything, -0 = +0.
F64Rank(x) == IF IsInf(x) THEN (IF x.neg THEN 0 - 1 ELSE 1) ELSE 0
F64Lt(x, y) ==
    /\ ~IsNaN(x) /\ ~IsNaN(y)
    /\ \/ F64Rank(x) < F64Rank(y)
       \/ F64Rank(x) = 0 /\ F64Rank(y) = 0 /\ Signed(x) * y.d < Signed(y) * x.d
F64Eq(x, y) ==
    /\ ~IsNaN(x) /\ ~IsNaN(y)
    /\ F64Rank(x) = F64Rank(y)
    /\ F64Rank(x) = 0 => Signed(x) * y.d = Signed(y) * x.d
F64Le(x, y) == F64Lt(x, y) \/ F64Eq(x, y)
F64Gt(x, y) == F64Lt(y, x)
F64Ge(x, y) == F64Le(y, x)

\* f64::to_string
DigitChars == <<"0", "1", "2", "3", "4", "5", "6", "7", "8", "9">>
RECURSIVE NatToString(_)
NatToString(i) ==
    IF i < 10 THEN DigitChars[i + 1]
    ELSE NatToString(i \div 10) \o DigitChars[(i % 10) + 1]
RECURSIVE FracToString(_, _, _)
FracToString(r, d, left) ==
    IF r = 0 \/ left = 0 THEN ""
    ELSE DigitChars[((r * 10) \div d) + 1] \o FracToString((r * 10) % d, d, left - 1)
F64ToString(x) ==
    IF IsNaN(x) THEN "NaN"
    ELSE IF IsInf(x) THEN (IF x.neg THEN "-inf" ELSE "inf")
    ELSE (IF x.neg THEN "-" ELSE "")
         \o NatToString(x.n \div x.d)
         \o (IF x.n % x.d = 0 THEN "" ELSE "." \o FracToString(x.n % x.d, x.d, MaxFracDigits))

\* str::parse::<f64>.  The grammar of f64::from_str:
\*   Float  ::= Sign? ( 'inf' | 'infinity' | 'nan' | Number )
\*   Number ::= ( Digit+ | Digit+ '.' Digit* | Digit* '.' Digit+ ) Exp?
\*   Exp    ::= 'e' Sign? Digit+
\* letters in either case.  IsNumberLexeme is parse(..).is_ok(), ParseF64 the
\* value of an accepted text (exact; rounding and overflow are not modelled).
DigitVal(c) == CHOOSE i \in 0..9 : DigitChars[i + 1] = c
RECURSIVE DigitsVal(_, _)
DigitsVal(chars, acc) ==
    IF chars = <<>> THEN acc ELSE DigitsVal(Tail(chars), acc * 10 + DigitVal(Head(chars)))
RECURSIVE Pow10(_)
Pow10(k) == IF k = 0 THEN 1 ELSE 10 * Pow10(k - 1)
F64LowerChar(c) ==
    CASE c = "A" -> "a" [] c = "E" -> "e" [] c = "F" -> "f" [] c = "I" -> "i"
      [] c = "N" -> "n" [] c = "T" -> "t" [] c = "Y" -> "y" [] OTHER -> c
F64HasSign(chars) == chars # <<>> /\ Head(chars) \in {"+", "-"}
F64Unsigned(chars) == IF F64HasSign(chars) THEN Tail(chars) ELSE chars
F64Body(chars) ==
    [i \in DOMAIN F64Unsigned(chars) |-> F64LowerChar(F64Unsigned(chars)[i])]
F64Words == {<<"i", "n", "f">>, <<"i", "n", "f", "i", "n", "i", "t", "y">>, <<"n", "a", "n">>}
F64ExpAt(body) ==
    IF \E i \in DOMAIN body : body[i] = "e"
    THEN CHOOSE i \in DOMAIN body : body[i] = "e" /\ \A j \in 1..(i - 1) : body[j] # "e"
    ELSE Len(body) + 1
F64Mantissa(body) == SubSeq(body, 1, F64ExpAt(body) - 1)
F64Exponent(body) == SubSeq(body, F64ExpAt(body) + 1, Len(body))
F64IsMantissa(m) ==
    /\ \A i \in DOMAIN m : m[i] \in {"0", "1", "2", "3", "4", "5", "6", "7", "8", "9", "."}
    /\ Cardinality({i \in DOMAIN m : m[i] = "."}) <= 1
    /\ \E i \in DOMAIN m : m[i] # "."
F64IsExponent(e) ==
    /\ F64Unsigned(e) # <<>>
    /\ \A i \in DOMAIN F64Unsigned(e) :
           F64Unsigned(e)[i] \in {"0", "1", "2", "3", "4", "5", "6", "7", "8", "9"}
IsNumberLexeme(chars) ==
    \/ F64Body(chars) \in F64Words
    \/ /\ F64IsMantissa(F64Mantissa(F64Body(chars)))
       /\ \/ F64ExpAt(F64Body(chars)) > Len(F64Body(chars))
          \/ F64IsExponent(F64Exponent(F64Body(chars)))
\* the digits of a mantissa without its point, and the number of digits after it
F64MantissaDigits(m) == SelectSeq(m, LAMBDA c : c # ".")
F64FractionLen(m) ==
    IF \E i \in DOMAIN m : m[i] = "."
    THEN Len(m) - (CHOOSE i \in DOMAIN m : m[i] = ".")
    ELSE 0
F64Scaled(neg, n, fraction_len, exp10) ==
    IF exp10 >= fraction_len THEN Fin(neg, n * Pow10(exp10 - fraction_len), 1)
    ELSE Fin(neg, n, Pow10(fraction_len - exp10))
F64ExponentVal(e) ==
    IF e = <<>> THEN 0
    ELSE IF Head(e) = "-" THEN 0 - DigitsVal(Tail(e), 0)
    ELSE DigitsVal(F64Unsigned(e), 0)
ParseF64(chars) ==
    IF ~IsNumberLexeme(chars) \/ F64Body(chars) = <<"n", "a", "n">> THEN NaN
    ELSE IF F64Body(chars) \in F64Words THEN Inf(Head(chars) = "-")
    ELSE F64Scaled(Head(chars) = "-",
                   DigitsVal(F64MantissaDigits(F64Mantissa(F64Body(chars))), 0),
                   F64FractionLen(F64Mantissa(F64Body(chars))),
                   F64ExponentVal(F64Exponent(F64Body(chars))))

(***************************************************************************)
(* token.rs: Literal and Token.                                            *)
(***************************************************************************)
LitString(s) == [kind |-> "String", str |-> s, num |-> NaN, bool |-> FALSE]
LitNumber(x) == [kind |-> "Number", str |-> "", num |-> x, bool |-> FALSE]
LitBoolean(b) == [kind |-> "Boolean", str |-> "", num |-> NaN, bool |-> b]
LitNone == [kind |-> "None", str |-> "", num |-> NaN, bool |-> FALSE]

Token(type, lexeme, literal, line) ==
    [token_type |-> type, lexeme |-> lexeme, literal |-> literal, line |-> line]

\* {:?} of a str: char::escape_debug of each character.  A character outside
\* ASCII is written in the model by its name U+XXXX; the named characters that
\* are not printable are escaped as \u{..}, the others are kept.
EscapedNames ==
    {<<"U+0000", "\\0">>, <<"U+000B", "\\u{b}">>, <<"U+0085", "\\u{85}">>,
     <<"U+00A0", "\\u{a0}">>, <<"U+1680", "\\u{1680}">>, <<"U+2000", "\\u{2000}">>,
     <<"U+2001", "\\u{2001}">>, <<"U+2002", "\\u{2002}">>, <<"U+2003", "\\u{2003}">>,
     <<"U+2004", "\\u{2004}">>, <<"U+2005", "\\u{2005}">>, <<"U+2006", "\\u{2006}">>,
     <<"U+2007", "\\u{2007}">>, <<"U+2008", "\\u{2008}">>, <<"U+2009", "\\u{2009}">>,
     <<"U+200A", "\\u{200a}">>, <<"U+2028", "\\u{2028}">>, <<"U+2029", "\\u{2029}">>,
     <<"U+202F", "\\u{202f}">>, <<"U+205F", "\\u{205f}">>, <<"U+3000", "\\u{3000}">>}
EscapeDebugChar(c) ==
    CASE c = "\"" -> "\\\"" [] c = "\\" -> "\\\\" [] c = "\n" -> "\\n"
      [] c = "\t" -> "\\t" [] c = "\r" -> "\\r" [] c = "\f" -> "\\u{c}"
      [] OTHER -> c
IsEscapedName(text, i) ==
    i + 5 <= Len(text) /\ \E e \in EscapedNames : e[1] = SubSeq(text, i, i + 5)
RECURSIVE EscapeDebug(_, _)
EscapeDebug(text, i) ==
    IF i > Len(text) THEN ""
    ELSE IF IsEscapedName(text, i)
    THEN (CHOOSE e \in EscapedNames : e[1] = SubSeq(text, i, i + 5))[2]
         \o EscapeDebug(text, i + 6)
    ELSE EscapeDebugChar(SubSeq(text, i, i)) \o EscapeDebug(text, i + 1)
\* {:?} of an f64: an exponent below 1e-4 (and from 1e16 on, which the
\* integers of the model do not reach), else the Display digits, with .0 for
\* an integer
RECURSIVE F64SciExp(_, _, _)
F64SciExp(n, d, k) == IF n * Pow10(k) >= d THEN k ELSE F64SciExp(n, d, k + 1)
F64Debug(x) ==
    IF x.k # "fin" THEN F64ToString(x)
    ELSE IF x.n # 0 /\ x.n * 10000 < x.d
    THEN (IF x.neg THEN "-" ELSE "")
         \o F64ToString(Fin(FALSE, x.n * Pow10(F64SciExp(x.n, x.d, 1)), x.d))
         \o "e-" \o NatToString(F64SciExp(x.n, x.d, 1))
    ELSE F64ToString(x) \o (IF x.d = 1 THEN ".0" ELSE "")
\* impl Display for Token: "{:?} {} {:?}"
LiteralDebug(l) ==
    CASE l.kind = "String" -> "String(\"" \o EscapeDebug(l.str, 1) \o "\")"
      [] l.kind = "Number" -> "Number(" \o F64Debug(l.num) \o ")"
      [] l.kind = "Boolean" -> "Boolean(" \o (IF l.bool THEN "true" ELSE "false") \o ")"
      [] OTHER -> "None"
TokenDisplay(t) == t.token_type \o " " \o t.lexeme \o " " \o LiteralDebug(t.literal)

(***************************************************************************)
(* scanner.rs: Scanner.  A scanner state is the struct's fields plus what  *)
(* the scanner has reported (errors) and whether a panic! unwound it.      *)
(* `current` and `start` count characters (chars().nth), while is_at_end   *)
(* and the slices of `source` count bytes, as in the source.               *)
(***************************************************************************)
NUL == "U+0000"
Utf8Len(c) ==
    IF c \in {"U+00E9", "U+0085", "U+00A0"} THEN 2
    ELSE IF c \in {"U+20AC", "U+1680", "U+2000", "U+2001", "U+2002", "U+2003", "U+2004",
                   "U+2005", "U+2006", "U+2007", "U+2008", "U+2009", "U+200A", "U+2028",
                   "U+2029", "U+202F", "U+205F", "U+3000"} THEN 3
    ELSE 1
RECURSIVE ByteOffset(_, _)
ByteOffset(src, i) == IF i = 0 THEN 0 ELSE ByteOffset(src, i - 1) + Utf8Len(src[i])
ByteLen(src) == ByteOffset(src, Len(src))

\* &source[a..b]: a byte range, which must lie on character boundaries
SliceOk(src, a, b) ==
    /\ a <= b
    /\ \E i \in 0..Len(src) : ByteOffset(src, i) = a
    /\ \E i \in 0..Len(src) : ByteOffset(src, i) = b
SliceChars(src, a, b) ==
    LET i0 == CHOOSE i \in 0..Len(src) : ByteOffset(src, i) = a
        i1 == CHOOSE i \in 0..Len(src) : ByteOffset(src, i) = b
    IN  SubSeq(src, i0 + 1, i1)

AsciiDigits == {"0", "1", "2", "3", "4", "5", "6", "7", "8", "9"}
AsciiLetters ==
    {"a", "b", "c", "d", "e", "f", "g", "h", "i", "j", "k", "l", "m",
     "n", "o", "p", "q", "r", "s", "t", "u", "v", "w", "x", "y", "z",
     "A", "B", "C", "D", "E", "F", "G", "H", "I", "J", "K", "L", "M",
     "N", "O", "P", "Q", "R", "S", "T", "U", "V", "W", "X", "Y", "Z"}
is_ascii_digit(c) == c \in AsciiDigits
is_valid_identifier_char(c) == c \in AsciiLetters \/ c \in AsciiDigits \/ c = "_"

KEYWORDS(identifier) ==
    CASE identifier = "and" -> "And"
      [] identifier = "class" -> "Class"
      [] identifier = "else" -> "Else"
      [] identifier = "false" -> "False"
      [] identifier = "for" -> "For"
      [] identifier = "fun" -> "Fun"
      [] identifier = "if" -> "If"
      [] identifier = "nil" -> "Nil"
      [] identifier = "or" -> "Or"
      [] identifier = "print" -> "Print"
      [] identifier = "return" -> "Return"
      [] identifier = "super" -> "Super"
      [] identifier = "this" -> "This"
      [] identifier = "true" -> "True"
      [] identifier = "var" -> "Var"
      [] identifier = "while" -> "While"
      [] OTHER -> "Identifier"

\* error.rs: what lox_generic_error / report_error print (and they set a flag)
Diagnostic(line, where, message) == [line |-> line, where |-> where, message |-> message]

\* starts is a history of the scanner, not a field of it: the value of
\* self.start at each push of add_token_with_value
ScannerNew(src) ==
    [source |-> src, tokens |-> <<>>, start |-> 0, current |-> 0, line |-> 1,
     errors |-> <<>>, panicked |-> FALSE, starts |-> <<>>]

ScPanic(s) == [s EXCEPT !.panicked = TRUE]
ScReport(s, message) ==
    [s EXCEPT !.errors = Append(@, Diagnostic(s.line, "", message))]

Sc_is_at_end(s) == s.current >= ByteLen(s.source)
Sc_has_nth_char(s, n) == n < Len(s.source)
Sc_get_nth_char(s, n) == s.source[n + 1]

\* consume: the character is Sc_get_nth_char(s, s.current) of the state before
Sc_consume(s) ==
    IF s.panicked \/ ~Sc_has_nth_char(s, s.current) THEN ScPanic(s)
    ELSE [s EXCEPT !.current = @ + 1]

\* peek: '\0' at the end, else the current character (whose lookup may panic)
Sc_peek_panics(s) == ~Sc_is_at_end(s) /\ ~Sc_has_nth_char(s, s.current)
Sc_peek(s) == IF Sc_is_at_end(s) THEN NUL ELSE Sc_get_nth_char(s, s.current)
Sc_peek_next_panics(s) ==
    ~(s.current + 1 >= ByteLen(s.source)) /\ ~Sc_has_nth_char(s, s.current + 1)
Sc_peek_next(s) ==
    IF s.current + 1 >= ByteLen(s.source) THEN NUL ELSE Sc_get_nth_char(s, s.current + 1)

\* check_and_consume(&[expected]): [s, matched]
Sc_check_and_consume(s, expected) ==
    IF Sc_is_at_end(s) THEN [s |-> s, matched |-> FALSE]
    ELSE IF ~Sc_has_nth_char(s, s.current) THEN [s |-> ScPanic(s), matched |-> FALSE]
    ELSE IF Sc_get_nth_char(s, s.current) # expected THEN [s |-> s, matched |-> FALSE]
    ELSE [s |-> [s EXCEPT !.current = @ + 1], matched |-> TRUE]

add_token_with_value(s, token_type, literal) ==
    IF s.panicked \/ ~SliceOk(s.source, s.start, s.current) THEN ScPanic(s)
    ELSE LET text == Concat(SliceChars(s.source, s.start, s.current))
         IN  [s EXCEPT !.tokens = Append(@, Token(token_type, text, literal, s.line)),
                       !.starts = Append(@, s.start)]
add_token(s, token_type) == add_token_with_value(s, token_type, LitNone)

RECURSIVE parse_string_loop(_)
parse_string_loop(s) ==
    IF s.panicked THEN s
    ELSE IF Sc_peek_panics(s) THEN ScPanic(s)
    ELSE IF Sc_peek(s) # "\"" /\ ~Sc_is_at_end(s)
         THEN parse_string_loop(
                  Sc_consume(IF Sc_peek(s) = "\n" THEN [s EXCEPT !.line = @ + 1] ELSE s))
         ELSE s
parse_string(s0) ==
    LET s1 == parse_string_loop(s0)
        s2 == IF ~s1.panicked /\ Sc_is_at_end(s1)
              THEN ScReport(s1, "Unterminated string.") ELSE s1
        s3 == Sc_consume(s2)
    IN  IF s3.panicked \/ ~SliceOk(s3.source, s3.start + 1, s3.current - 1) THEN ScPanic(s3)
        ELSE add_token_with_value(s3, "String",
                 LitString(Concat(SliceChars(s3.source, s3.start + 1, s3.current - 1))))

RECURSIVE consume_digits(_)
consume_digits(s) ==
    IF s.panicked THEN s
    ELSE IF Sc_peek_panics(s) THEN ScPanic(s)
    ELSE IF is_ascii_digit(Sc_peek(s)) THEN consume_digits(Sc_consume(s))
    ELSE s
parse_number(s0) ==
    LET s1 == consume_digits(s0)
        fraction == /\ ~s1.panicked
                    /\ Sc_peek(s1) = "."
                    /\ ~Sc_peek_next_panics(s1)
                    /\ is_ascii_digit(Sc_peek_next(s1))
        s2 == IF s1.panicked THEN s1
              ELSE IF Sc_peek(s1) = "." /\ Sc_peek_next_panics(s1) THEN ScPanic(s1)
              ELSE IF fraction THEN consume_digits(Sc_consume(s1))
              ELSE s1
    IN  IF s2.panicked \/ ~SliceOk(s2.source, s2.start, s2.current) THEN ScPanic(s2)
        ELSE LET number_slice == SliceChars(s2.source, s2.start, s2.current)
             IN  IF ~IsNumberLexeme(number_slice) THEN ScPanic(s2)
                 ELSE add_token_with_value(s2, "Number", LitNumber(ParseF64(number_slice)))

RECURSIVE consume_identifier(_)
consume_identifier(s) ==
    IF s.panicked THEN s
    ELSE IF Sc_peek_panics(s) THEN ScPanic(s)
    ELSE IF is_valid_identifier_char(Sc_peek(s)) THEN consume_identifier(Sc_consume(s))
    ELSE s
parse_identifier(s0) ==
    LET s1 == consume_identifier(s0)
    IN  IF s1.panicked \/ ~SliceOk(s1.source, s1.start, s1.current) THEN ScPanic(s1)
        ELSE LET identifier == Concat(SliceChars(s1.source, s1.start, s1.current))
                 identifier_token_type == KEYWORDS(identifier)
             IN  CASE identifier_token_type = "True" ->
                          add_token_with_value(s1, "True", LitBoolean(TRUE))
                   [] identifier_token_type = "False" ->
                          add_token_with_value(s1, "False", LitBoolean(FALSE))
                   [] OTHER -> add_token(s1, identifier_token_type)

RECURSIVE skip_comment(_)
skip_comment(s) ==
    IF s.panicked THEN s
    ELSE IF Sc_peek_panics(s) THEN ScPanic(s)
    ELSE IF Sc_peek(s) # "\n" /\ ~Sc_is_at_end(s) THEN skip_comment(Sc_consume(s))
    ELSE s

one_or_two(s, one, two) ==
    LET r == Sc_check_and_consume(s, "=")
    IN  add_token(r.s, IF r.matched THEN two ELSE one)

scan_token(s0) ==
    LET s == Sc_consume(s0)
        c == Sc_get_nth_char(s0, s0.current)
    IN  IF s.panicked THEN s
        ELSE CASE c = "(" -> add_token(s, "LeftParen")
               [] c = ")" -> add_token(s, "RightParen")
               [] c = "{" -> add_token(s, "LeftBrace")
               [] c = "}" -> add_token(s, "RightBrace")
               [] c = "," -> add_token(s, "Comma")
               [] c = "-" -> add_token(s, "Minus")
               [] c = "+" -> add_token(s, "Plus")
               [] c = ";" -> add_token(s, "Semicolon")
               [] c = "*" -> add_token(s, "Star")
               [] c = "!" -> one_or_two(s, "Bang", "BangEqual")
               [] c = "=" -> one_or_two(s, "Equal", "EqualEqual")
               [] c = "<" -> one_or_two(s, "Less", "LessEqual")
               [] c = ">" -> one_or_two(s, "Greater", "GreaterEqual")
               [] c = "/" -> LET r == Sc_check_and_consume(s, "/")
                             IN  IF r.matched THEN skip_comment(r.s)
                                 ELSE add_token(r.s, "Slash")
               [] c \in {" ", "\r", "\t"} -> s
               [] c = "\n" -> [s EXCEPT !.line = @ + 1]
               [] c = "\"" -> parse_string(s)
               [] is_ascii_digit(c) -> parse_number(s)
               [] is_valid_identifier_char(c) -> parse_identifier(s)
               [] c = "." -> add_token(s, "Dot")
               [] OTHER -> ScReport(s, "Unexpected character '" \o c \o "'")

RECURSIVE scan_loop(_)
scan_loop(s) ==
    IF s.panicked \/ Sc_is_at_end(s) THEN s
    ELSE scan_loop(scan_token([s EXCEPT !.start = s.current]))

\* mutant of scan_tokens: the Eof token carries the line the scanner started on
Mut_scan_tokens(s0) ==
    LET s == scan_loop(s0)
    IN  IF s.panicked THEN s
        ELSE [s EXCEPT !.tokens = Append(@, Token("Eof", "", LitNone, s0.line))]
\* Scanner::scan_tokens: the final scanner state; .tokens is what it returns
scan_tokens(s0) ==
    LET s == scan_loop(s0)
    IN  IF s.panicked THEN s
        ELSE [s EXCEPT !.tokens = Append(@, Token("Eof", "", LitNone, s.line))]

(***************************************************************************)
(* expression.rs: Expression.                                              *)
(***************************************************************************)
ExprBinary(left, operator, right) ==
    [type |-> "Binary", left |-> left, operator |-> operator, right |-> right]
ExprGrouping(inner) == [type |-> "Grouping", expression |-> inner]
ExprLiteral(value) == [type |-> "Literal", value |-> value]
ExprUnary(operator, right) == [type |-> "Unary", operator |-> operator, right |-> right]
NoExpr == [type |-> "None"]

(***************************************************************************)
(* parser.rs: Parser.  A parser state is the struct's fields plus the      *)
(* lines peek_previous prints and whether a panic! unwound the parser.     *)
(* Every parse_* call takes the depth of the call stack: a call deeper     *)
(* than StackLimit overflows the stack, which aborts the process.          *)
(***************************************************************************)
ParserNew(toks) == [tokens |-> toks, current |-> 0, out |-> <<>>, panicked |-> FALSE]

PaPanic(p) == [p EXCEPT !.panicked = TRUE]

\* peek: tokens.get(current), a panic when there is no such token
Pa_has_token(p, i) == 0 <= i /\ i < Len(p.tokens)
Pa_peek(p) == p.tokens[p.current + 1]

Pa_consume(p) ==
    IF p.panicked \/ ~Pa_has_token(p, p.current) THEN PaPanic(p)
    ELSE [p EXCEPT !.current = @ + 1]

\* check_and_consume(expected): [p, matched]; any() over an empty list never
\* calls peek
Pa_check_and_consume(p, expected) ==
    IF p.panicked THEN [p |-> p, matched |-> FALSE]
    ELSE IF expected = {} THEN [p |-> p, matched |-> FALSE]
    ELSE IF ~Pa_has_token(p, p.current) THEN [p |-> PaPanic(p), matched |-> FALSE]
    ELSE IF Pa_peek(p).token_type \in expected
         THEN [p |-> Pa_consume(p), matched |-> TRUE]
         ELSE [p |-> p, matched |-> FALSE]

\* peek_previous: prints the cursor, then tokens.get(current - 1): [p, token]
Pa_peek_previous(p) ==
    LET printed == [p EXCEPT !.out = Append(@, "current: " \o NatToString(p.current))]
    IN  IF p.panicked THEN [p |-> p, token |-> Token("Eof", "", LitNone, 0)]
        ELSE IF ~Pa_has_token(p, p.current - 1)
             THEN [p |-> PaPanic(printed), token |-> Token("Eof", "", LitNone, 0)]
             ELSE [p |-> printed, token |-> p.tokens[p.current]]

Pa_is_at_end_panics(p) == ~Pa_has_token(p, p.current)
Pa_is_at_end(p) == Pa_peek(p).token_type = "Eof"

\* Result<Expression>, or the way the call ended the process
POk(p, e) == [p |-> p, status |-> "Ok", expr |-> e, message |-> ""]
PErr(p, m) == [p |-> p, status |-> "Err", expr |-> NoExpr, message |-> m]
PPanic(p) == [p |-> PaPanic(p), status |-> "Panic", expr |-> NoExpr, message |-> ""]
POverflow(p) == [p |-> p, status |-> "StackOverflow", expr |-> NoExpr, message |-> ""]

\* Each parse_* operator below names its callee once and hands the callee's
\* result to a *_then operator, which is the rest of the function's body.
RECURSIVE parse_expression(_, _)
RECURSIVE parse_binary_loop(_, _, _, _)
RECURSIVE parse_unary(_, _)
RECURSIVE parse_literal_or_group(_, _)

\* the LeftParen arm of parse_literal_or_group, after parse_expression()?
parse_group_closing(c, inner) ==
    IF c.p.panicked THEN PPanic(c.p)
    ELSE IF c.matched THEN POk(c.p, ExprGrouping(inner.expr))
    ELSE PErr(c.p, "Expected ')' after expression.")
parse_group_then(inner) ==
    IF inner.status # "Ok" THEN inner
    ELSE parse_group_closing(Pa_check_and_consume(inner.p, {"RightParen"}), inner)
parse_group_arm(p, depth) == parse_group_then(parse_expression(p, depth + 1))

\* the match of parse_literal_or_group on the current token
literal_or_group_match(p, tok, depth) ==
    CASE tok.token_type \in {"False", "True"} ->
             IF tok.literal.kind = "Boolean"
             THEN POk(p, ExprLiteral(LitBoolean(tok.literal.bool)))
             ELSE PErr(p, "Failed to convert literal " \o LiteralDebug(tok.literal)
                          \o " to boolean.")
      [] tok.token_type = "Nil" -> POk(p, ExprLiteral(LitNone))
      [] tok.token_type = "Number" ->
             IF tok.literal.kind = "Number"
             THEN POk(p, ExprLiteral(LitNumber(tok.literal.num)))
             ELSE PErr(p, "Failed to convert literal " \o LiteralDebug(tok.literal)
                          \o " to number.")
      [] tok.token_type = "String" ->
             IF tok.literal.kind = "String"
             THEN POk(p, ExprLiteral(LitString(tok.literal.str)))
             ELSE PErr(p, "Failed to convert literal " \o LiteralDebug(tok.literal)
                          \o " to string.")
      [] tok.token_type = "LeftParen" -> parse_group_arm(p, depth)
      [] OTHER -> PErr(p, "Token " \o TokenDisplay(tok) \o " parsing was unhandled.")
\* if match_result.is_ok() { self.consume(); }
literal_or_group_consume(match_result) ==
    IF match_result.status # "Ok" THEN match_result
    ELSE IF ~Pa_has_token(match_result.p, match_result.p.current) THEN PPanic(match_result.p)
    ELSE [match_result EXCEPT !.p = Pa_consume(match_result.p)]
parse_literal_or_group(p, depth) ==
    IF depth > StackLimit THEN POverflow(p)
    ELSE IF p.panicked \/ ~Pa_has_token(p, p.current) THEN PPanic(p)
    ELSE literal_or_group_consume(literal_or_group_match(p, Pa_peek(p), depth))

parse_unary_fold(operator, right) ==
    IF right.status # "Ok" THEN right ELSE POk(right.p, ExprUnary(operator, right.expr))
parse_unary_operand(prev, depth) ==
    IF prev.p.panicked THEN PPanic(prev.p)
    ELSE parse_unary_fold(prev.token, parse_unary(prev.p, depth + 1))
parse_unary_then(c, p, depth) ==
    IF c.p.panicked THEN PPanic(c.p)
    ELSE IF c.matched THEN parse_unary_operand(Pa_peek_previous(c.p), depth)
    ELSE parse_literal_or_group(p, depth + 1)
parse_unary(p, depth) ==
    IF depth > StackLimit THEN POverflow(p)
    ELSE parse_unary_then(Pa_check_and_consume(p, {"Bang", "Minus"}), p, depth)

\* The four binary levels have one body: parse the next-higher level, then
\* while check_and_consume(this level's operators): operator = peek_previous(),
\* right = next-higher level, expression = Binary { expression, operator, right }.
\* mutant of LevelOperators: the operators of term and factor exchanged
MutLevelOperators(level) ==
    CASE level = "equality" -> {"BangEqual", "EqualEqual"}
      [] level = "comparison" -> {"Greater", "GreaterEqual", "Less", "LessEqual"}
      [] level = "term" -> {"Slash", "Star"}
      [] OTHER -> {"Plus", "Minus"}
LevelOperators(level) ==
    CASE level = "equality" -> {"BangEqual", "EqualEqual"}
      [] level = "comparison" -> {"Greater", "GreaterEqual", "Less", "LessEqual"}
      [] level = "term" -> {"Plus", "Minus"}
      [] OTHER -> {"Slash", "Star"}
RECURSIVE parse_binary_level(_, _, _)
\* the call `self.parse_<next level>()` made by level `level`, one frame deeper
parse_operand(level, p, depth) ==
    CASE level = "equality" -> parse_binary_level("comparison", p, depth + 1)
      [] level = "comparison" -> parse_binary_level("term", p, depth + 1)
      [] level = "term" -> parse_binary_level("factor", p, depth + 1)
      [] OTHER -> parse_unary(p, depth + 1)
\* mutant of parse_binary_fold: the new operand becomes the left child
Mut_parse_binary_fold(level, expression0, operator, right, depth) ==
    IF right.status # "Ok" THEN right
    ELSE parse_binary_loop(level, right.p, ExprBinary(right.expr, operator, expression0), depth)
parse_binary_fold(level, expression0, operator, right, depth) ==
    IF right.status # "Ok" THEN right
    ELSE parse_binary_loop(level, right.p, ExprBinary(expression0, operator, right.expr), depth)
parse_binary_operand(level, expression0, prev, depth) ==
    IF prev.p.panicked THEN PPanic(prev.p)
    ELSE parse_binary_fold(level, expression0, prev.token,
                           parse_operand(level, prev.p, depth), depth)
parse_binary_loop_then(level, c, p, expression0, depth) ==
    IF c.p.panicked THEN PPanic(c.p)
    ELSE IF ~c.matched THEN POk(p, expression0)
    ELSE parse_binary_operand(level, expression0, Pa_peek_previous(c.p), depth)
parse_binary_loop(level, p, expression0, depth) ==
    parse_binary_loop_then(level, Pa_check_and_consume(p, LevelOperators(level)),
                           p, expression0, depth)
parse_binary_first(level, first, depth) ==
    IF first.status # "Ok" THEN first
    ELSE parse_binary_loop(level, first.p, first.expr, depth)
parse_binary_level(level, p, depth) ==
    IF depth > StackLimit THEN POverflow(p)
    ELSE parse_binary_first(level, parse_operand(level, p, depth), depth)

parse_factor(p, depth) == parse_binary_level("factor", p, depth)
parse_term(p, depth) == parse_binary_level("term", p, depth)
parse_comparison(p, depth) == parse_binary_level("comparison", p, depth)
parse_equality(p, depth) == parse_binary_level("equality", p, depth)

parse_expression(p, depth) ==
    IF depth > StackLimit THEN POverflow(p) ELSE parse_equality(p, depth + 1)

\* Parser::parse_error: the diagnostic it hands to crate::report_error
parse_error(token, message) ==
    IF token.token_type = "Eof" THEN Diagnostic(token.line, "at end of input", message)
    ELSE Diagnostic(token.line, "at '" \o token.lexeme \o "'", message)

SyncKeywords == {"Class", "Fun", "Var", "For", "If", "While", "Print", "Return"}
RECURSIVE synchronise_loop(_)
synchronise_step(prev) ==
    IF prev.p.panicked THEN prev.p
    ELSE IF prev.token.token_type = "Semicolon" THEN prev.p
    ELSE IF Pa_peek(prev.p).token_type \in SyncKeywords THEN prev.p
    ELSE synchronise_loop(Pa_consume(prev.p))
synchronise_loop(p) ==
    IF p.panicked THEN p
    ELSE IF Pa_is_at_end_panics(p) THEN PaPanic(p)
    ELSE IF Pa_is_at_end(p) THEN p
    ELSE synchronise_step(Pa_peek_previous(p))
synchronise(p) == synchronise_loop(Pa_consume(p))

\* Parser::parse: the Option it returns (status "Some" | "None"), the parser
\* state it leaves, and the diagnostics it reported; or the way it ended the
\* process (status "Panic" | "StackOverflow")
parse_recover(synced, reported) ==
    [p |-> synced, status |-> IF synced.panicked THEN "Panic" ELSE "None",
     expr |-> NoExpr, errors |-> reported]
parse_match(r) ==
    CASE r.status = "Ok" ->
             [p |-> r.p, status |-> "Some", expr |-> r.expr, errors |-> <<>>]
      [] r.status = "Err" ->
             IF ~Pa_has_token(r.p, r.p.current)
             THEN [p |-> PaPanic(r.p), status |-> "Panic", expr |-> NoExpr, errors |-> <<>>]
             ELSE parse_recover(synchronise(r.p), <<parse_error(Pa_peek(r.p), r.message)>>)
      [] OTHER -> [p |-> r.p, status |-> r.status, expr |-> NoExpr, errors |-> <<>>]
parse(p0) == parse_match(parse_expression(p0, 1))

(***************************************************************************)
(* util/ast_printer.rs: what Display for Expression prints.                *)
(***************************************************************************)
RECURSIVE format_ast(_)
format_ast(e) ==
    CASE e.type = "Binary" ->
             "(" \o e.operator.lexeme \o " " \o format_ast(e.left)
                 \o " " \o format_ast(e.right) \o ")"
      [] e.type = "Grouping" -> "(group " \o format_ast(e.expression) \o ")"
      [] e.type = "Unary" -> "(" \o e.operator.lexeme \o " " \o format_ast(e.right) \o ")"
      [] OTHER ->
             CASE e.value.kind = "String" -> e.value.str
               [] e.value.kind = "Number" -> F64ToString(e.value.num)
               [] e.value.kind = "Boolean" -> (IF e.value.bool THEN "true" ELSE "false")
               [] OTHER -> "nil"

(***************************************************************************)
(* interpreter.rs: Value and Interpreter.                                  *)
(***************************************************************************)
VString(s) == [kind |-> "String", str |-> s, num |-> NaN, bool |-> FALSE]
VNumber(x) == [kind |-> "Number", str |-> "", num |-> x, bool |-> FALSE]
VBoolean(b) == [kind |-> "Boolean", str |-> "", num |-> NaN, bool |-> b]
VNil == [kind |-> "Nil", str |-> "", num |-> NaN, bool |-> FALSE]

\* mutant of ValueEq: values compared by their printed text (type coercion)
MutValueEq(l, r) ==
    (CASE l.kind = "String" -> l.str
       [] l.kind = "Number" -> F64ToString(l.num)
       [] l.kind = "Boolean" -> (IF l.bool THEN "true" ELSE "false")
       [] OTHER -> "nil")
    = (CASE r.kind = "String" -> r.str
         [] r.kind = "Number" -> F64ToString(r.num)
         [] r.kind = "Boolean" -> (IF r.bool THEN "true" ELSE "false")
         [] OTHER -> "nil")
\* #[derive(PartialEq)] on Value
ValueEq(l, r) ==
    /\ l.kind = r.kind
    /\ CASE l.kind = "String" -> l.str = r.str
         [] l.kind = "Number" -> F64Eq(l.num, r.num)
         [] l.kind = "Boolean" -> l.bool = r.bool
         [] OTHER -> TRUE

is_truthy(v) ==
    CASE v.kind \in {"String", "Number"} -> FALSE
      [] v.kind = "Boolean" -> ~v.bool
      [] OTHER -> FALSE

\* impl Display for Value
ValueDisplay(v) ==
    CASE v.kind = "String" -> v.str
      [] v.kind = "Number" -> F64ToString(v.num)
      [] v.kind = "Boolean" -> (IF v.bool THEN "true" ELSE "false")
      [] OTHER -> "nil"

\* RuntimeResult<Value>, or a panic (unreachable!)
EOk(v) == [status |-> "Ok", value |-> v, message |-> "", token |-> Token("Eof", "", LitNone, 0)]
RuntimeError(message, token) ==
    [status |-> "Err", value |-> VNil, message |-> message, token |-> token]
EPanic == [status |-> "Panic", value |-> VNil, message |-> "",
           token |-> Token("Eof", "", LitNone, 0)]

\* mutant of check_number_operands: only the left operand is checked
Mut_check_number_operands(operator, left, right) ==
    IF left.kind = "Number" THEN EOk(VNil)
    ELSE RuntimeError("Operands '" \o ValueDisplay(left) \o "' and '" \o ValueDisplay(right)
                      \o "' must both be numbers.", operator)
\* check_number_operands: an EOk whose payload is unused, or the error
check_number_operands(operator, left, right) ==
    IF left.kind = "Number" /\ right.kind = "Number" THEN EOk(VNil)
    ELSE RuntimeError("Operands '" \o ValueDisplay(left) \o "' and '" \o ValueDisplay(right)
                      \o "' must both be numbers.", operator)

\* mutant of evaluate_plus: a string and a number are concatenated
Mut_evaluate_plus(operator, left, right) ==
    IF left.kind = "Number" /\ right.kind = "Number"
    THEN EOk(VNumber(F64Add(left.num, right.num)))
    ELSE IF left.kind \in {"String", "Number"} /\ right.kind \in {"String", "Number"}
    THEN EOk(VString(ValueDisplay(left) \o ValueDisplay(right)))
    ELSE RuntimeError("Operands '" \o ValueDisplay(left) \o "' and '" \o ValueDisplay(right)
                      \o "' must both be numbers or strings.", operator)
evaluate_plus(operator, left, right) ==
    IF left.kind = "Number" /\ right.kind = "Number"
    THEN EOk(VNumber(F64Add(left.num, right.num)))
    ELSE IF left.kind = "String" /\ right.kind = "String"
    THEN EOk(VString(left.str \o right.str))
    ELSE RuntimeError("Operands '" \o ValueDisplay(left) \o "' and '" \o ValueDisplay(right)
                      \o "' must both be numbers or strings.", operator)

evaluate_equality(operator, left, right) ==
    IF operator.token_type = "BangEqual" THEN EOk(VBoolean(~ValueEq(left, right)))
    ELSE EOk(VBoolean(ValueEq(left, right)))

evaluate_numeric(operator, left, right) ==
    LET checked == check_number_operands(operator, left, right)
        l_num == left.num
        r_num == right.num
        t == operator.token_type
    IN  IF checked.status # "Ok" THEN checked
        ELSE CASE t = "Minus" -> EOk(VNumber(F64Sub(l_num, r_num)))
               [] t = "Slash" -> EOk(VNumber(F64Div(l_num, r_num)))
               [] t = "Star" -> EOk(VNumber(F64Mul(l_num, r_num)))
               [] t = "Greater" -> EOk(VBoolean(F64Gt(l_num, r_num)))
               [] t = "GreaterEqual" -> EOk(VBoolean(F64Ge(l_num, r_num)))
               [] t = "Less" -> EOk(VBoolean(F64Lt(l_num, r_num)))
               [] OTHER -> EOk(VBoolean(F64Le(l_num, r_num)))

evaluate_binary(operator, left, right) ==
    LET t == operator.token_type
    IN  CASE t \in {"Minus", "Slash", "Star", "Greater", "GreaterEqual", "Less", "LessEqual"} ->
                 evaluate_numeric(operator, left, right)
          [] t = "Plus" -> evaluate_plus(operator, left, right)
          [] t \in {"BangEqual", "EqualEqual"} -> evaluate_equality(operator, left, right)
          [] OTHER -> EPanic

evaluate_unary(operator, right_val) ==
    CASE operator.token_type = "Bang" -> EOk(VBoolean(~is_truthy(right_val)))
      [] operator.token_type = "Minus" ->
             IF right_val.kind = "Number" THEN EOk(VNumber(F64Neg(right_val.num)))
             ELSE RuntimeError("Operand '" \o ValueDisplay(right_val)
                               \o "' must be a number to apply '" \o TokenDisplay(operator)
                               \o "' operator", operator)
      [] OTHER -> EPanic

evaluate_literal(value) ==
    CASE value.kind = "String" -> EOk(VString(value.str))
      [] value.kind = "Number" -> EOk(VNumber(value.num))
      [] value.kind = "Boolean" -> EOk(VBoolean(value.bool))
      [] OTHER -> EOk(VNil)

RECURSIVE evaluate(_)
evaluate(e) ==
    CASE e.type = "Binary" ->
             LET left == evaluate(e.left)
                 right == evaluate(e.right)
             IN  IF left.status # "Ok" THEN left
                 ELSE IF right.status # "Ok" THEN right
                 ELSE evaluate_binary(e.operator, left.value, right.value)
      [] e.type = "Grouping" -> evaluate(e.expression)
      [] e.type = "Literal" -> evaluate_literal(e.value)
      [] OTHER ->
             LET right_val == evaluate(e.right)
             IN  IF right_val.status # "Ok" THEN right_val
                 ELSE evaluate_unary(e.operator, right_val.value)

(***************************************************************************)
(* The inputs the model draws.                                             *)
(***************************************************************************)
\* characters of a source handed to the scanner
SourceAlphabet ==
    {"1", ".", "+", "=", "/", "(", "\"", "a", "@", "U+00E9", "\n", " "}
Sources == SeqsUpTo(SourceAlphabet, MaxSrcLen)

\* characters of a line typed at the REPL prompt (read_line ends it at "\n")
LineAlphabet == {"1", "+", ")", "\"", "@", " ", ";", "\f"}
Lines == SeqsUpTo(LineAlphabet, MaxSrcLen)
\* args.len(): the program name and up to MaxArgs arguments
ArgCounts == 1..(MaxArgs + 1)

\* tokens as the scanner emits them for one lexeme
ScanOne(chars) == scan_tokens(ScannerNew(chars)).tokens[1]
EofToken == ScanOne(<<>>)
LiteralTokens ==
    {ScanOne(<<"1">>), ScanOne(<<"\"", "s", "\"">>), ScanOne(<<"t", "r", "u", "e">>),
     ScanOne(<<"f", "a", "l", "s", "e">>), ScanOne(<<"n", "i", "l">>)}
EqualityTokens == {ScanOne(<<"!", "=">>), ScanOne(<<"=", "=">>)}
ComparisonTokens ==
    {ScanOne(<<">">>), ScanOne(<<">", "=">>), ScanOne(<<"<">>), ScanOne(<<"<", "=">>)}
TermTokens == {ScanOne(<<"+">>), ScanOne(<<"-">>)}
FactorTokens == {ScanOne(<<"/">>), ScanOne(<<"*">>)}
BinaryTokens == EqualityTokens \cup ComparisonTokens \cup TermTokens \cup FactorTokens
UnaryTokens == {ScanOne(<<"!">>), ScanOne(<<"-">>)}
ParserAlphabet ==
    {ScanOne(<<"1">>), ScanOne(<<"\"", "s", "\"">>), ScanOne(<<"t", "r", "u", "e">>),
     ScanOne(<<"n", "i", "l">>), ScanOne(<<"+">>), ScanOne(<<"-">>), ScanOne(<<"*">>),
     ScanOne(<<"!">>), ScanOne(<<"=", "=">>), ScanOne(<<"<">>), ScanOne(<<"(">>),
     ScanOne(<<")">>), ScanOne(<<";">>), ScanOne(<<"p", "r", "i", "n", "t">>),
     ScanOne(<<"x">>)}
\* a op1 b op2 c
ChainSeqs ==
    {<<a, op1, b, op2, c>> : a \in LiteralTokens, op1 \in BinaryTokens,
                              b \in LiteralTokens, op2 \in BinaryTokens,
                              c \in LiteralTokens}
\* ( 1 + 2 ) * 3
OnePlusTwoTimesThree ==
    <<ScanOne(<<"(">>), ScanOne(<<"1">>), ScanOne(<<"+">>), ScanOne(<<"2">>),
      ScanOne(<<")">>), ScanOne(<<"*">>), ScanOne(<<"3">>)>>
GroupSeqs == {OnePlusTwoTimesThree}
\* 1 op1 1 op2 1 op3 1 with the three operators of one level
LevelTokens == {EqualityTokens, ComparisonTokens, TermTokens, FactorTokens}
AssocSeqs ==
    {<<ScanOne(<<"1">>), ops[1], ScanOne(<<"1">>), ops[2], ScanOne(<<"1">>), ops[3],
       ScanOne(<<"1">>)>> : ops \in UNION {[1..3 -> level] : level \in LevelTokens}}
\* what scan_tokens returns: tokens, then one Eof
TokenSeqs ==
    {Append(ts, EofToken) : ts \in SeqsUpTo(ParserAlphabet, MaxToks) \cup ChainSeqs \cup GroupSeqs
                                   \cup AssocSeqs}

\* expression trees handed to the interpreter
LiteralNodes ==
    {ExprLiteral(LitNumber(Num(i))) : i \in 0..MaxNum}
    \cup {ExprLiteral(LitString("")), ExprLiteral(LitString("a")), ExprLiteral(LitString("1")),
          ExprLiteral(LitBoolean(TRUE)), ExprLiteral(LitBoolean(FALSE)), ExprLiteral(LitNone)}
Lit0 == ExprLiteral(LitNumber(Num(0)))
Lit1 == ExprLiteral(LitNumber(Num(1)))
MinusToken == ScanOne(<<"-">>)
SlashToken == ScanOne(<<"/">>)
ComputedNodes ==
    {ExprUnary(MinusToken, Lit0),                       \* -0
     ExprBinary(Lit0, SlashToken, Lit0),                \* NaN
     ExprBinary(Lit1, SlashToken, Lit0),                \* inf
     ExprUnary(MinusToken, ExprLiteral(LitString("a"))),   \* a runtime error
     ExprGrouping(Lit1)}
Operands == LiteralNodes \cup ComputedNodes
Example9 ==
    ExprBinary(ExprGrouping(ExprBinary(Lit1, ScanOne(<<"+">>), ExprLiteral(LitNumber(Num(2))))),
               ScanOne(<<"*">>), ExprLiteral(LitNumber(Num(3))))
\* 1 == 1.0, as the scanner and the parser build it
OneEqualsOnePointZero ==
    parse(ParserNew(scan_tokens(ScannerNew(<<"1", "=", "=", "1", ".", "0">>)).tokens)).expr
Trees ==
    Operands
    \cup {ExprUnary(op, x) : op \in UnaryTokens, x \in Operands}
    \cup {ExprBinary(x, op, y) : x \in Operands, op \in BinaryTokens, y \in Operands}
    \cup {ExprGrouping(x) : x \in Operands}
    \cup {Example9, OneEqualsOnePointZero}

(***************************************************************************)
(* The state machine.                                                      *)
(***************************************************************************)
Init ==
    /\ pc = "start"
    /\ mode = "none"
    /\ source = <<>>
    /\ tokens = <<>>
    /\ current = 0
    /\ expression = [some |-> FALSE, expr |-> NoExpr]
    /\ result = [status |-> "None"]
    /\ main_ERROR_FLAG = FALSE
    /\ error_ERROR_FLAG = FALSE
    /\ RUNTIME_ERROR_FLAG = FALSE
    /\ stdout = <<>>
    /\ stderr = <<>>

Printed(by, text) == [by |-> by, text |-> text]
RECURSIVE PrintedAll(_, _)
PrintedAll(by, texts) ==
    IF texts = <<>> THEN <<>> ELSE <<Printed(by, Head(texts))>> \o PrintedAll(by, Tail(texts))

\* Scanner::new(source).scan_tokens(), the scanner reporting through
\* crate::error::lox_generic_error: stderr and error.rs's ERROR_FLAG
ScanEffect(s) ==
    /\ tokens' = s.tokens
    /\ stderr' = stderr \o s.errors
    /\ error_ERROR_FLAG' = (error_ERROR_FLAG \/ s.errors # <<>>)
    /\ pc' = IF s.panicked THEN "panicked" ELSE "scanned"
    /\ UNCHANGED <<mode, source, current, expression, result, main_ERROR_FLAG,
                   RUNTIME_ERROR_FLAG, stdout>>
DoScan == ScanEffect(scan_tokens(ScannerNew(source)))

\* Parser::new(tokens).parse(), the parser reporting through
\* crate::report_error: stderr and main.rs's ERROR_FLAG
ParseEffect(r) ==
    /\ current' = r.p.current
    /\ expression' = [some |-> r.status = "Some", expr |-> r.expr]
    /\ stdout' = stdout \o PrintedAll("peek_previous", r.p.out)
    /\ stderr' = stderr \o r.errors
    /\ main_ERROR_FLAG' = (main_ERROR_FLAG \/ r.errors # <<>>)
    /\ pc' = CASE r.status = "Panic" -> "panicked"
               [] r.status = "StackOverflow" -> "stack_overflow"
               [] OTHER -> "parsed"
    /\ UNCHANGED <<mode, source, tokens, result, error_ERROR_FLAG, RUNTIME_ERROR_FLAG>>
DoParse == ParseEffect(parse(ParserNew(tokens)))

(* ---- the scanner on its own ---- *)
Scanner_new(src) ==
    /\ pc = "start"
    /\ pc' = "scanner"
    /\ source' = src
    /\ UNCHANGED <<mode, tokens, current, expression, result, main_ERROR_FLAG,
                   error_ERROR_FLAG, RUNTIME_ERROR_FLAG, stdout, stderr>>
Scanner_scan_tokens ==
    /\ pc = "scanner"
    /\ DoScan
NextScanner == (\E src \in Sources : Scanner_new(src)) \/ Scanner_scan_tokens
SpecScanner == Init /\ [][NextScanner]_vars

(* ---- the parser on its own ---- *)
Parser_new(toks) ==
    /\ pc = "start"
    /\ pc' = "parser"
    /\ tokens' = toks
    /\ current' = 0
    /\ UNCHANGED <<mode, source, expression, result, main_ERROR_FLAG, error_ERROR_FLAG,
                   RUNTIME_ERROR_FLAG, stdout, stderr>>
Parser_parse ==
    /\ pc = "parser"
    /\ DoParse
NextParser == (\E toks \in TokenSeqs : Parser_new(toks)) \/ Parser_parse
SpecParser == Init /\ [][NextParser]_vars

(* ---- the interpreter on its own ---- *)
Interpreter_evaluate(e) ==
    /\ pc = "start"
    /\ expression' = [some |-> TRUE, expr |-> e]
    /\ result' = evaluate(e)
    /\ pc' = IF evaluate(e).status = "Panic" THEN "panicked" ELSE "evaluated"
    /\ UNCHANGED <<mode, source, tokens, current, main_ERROR_FLAG, error_ERROR_FLAG,
                   RUNTIME_ERROR_FLAG, stdout, stderr>>
\* interpret's match on the value: println!, or error::runtime_error
Interpreter_report ==
    /\ pc = "evaluated"
    /\ pc' = "interpreted"
    /\ IF result.status = "Ok"
       THEN /\ stdout' = Append(stdout, Printed("interpret", ValueDisplay(result.value)))
            /\ UNCHANGED <<stderr, error_ERROR_FLAG, RUNTIME_ERROR_FLAG>>
       ELSE /\ stderr' = Append(stderr, Diagnostic(result.token.line, "", result.message))
            /\ error_ERROR_FLAG' = TRUE
            /\ RUNTIME_ERROR_FLAG' = TRUE
            /\ UNCHANGED stdout
    /\ UNCHANGED <<mode, source, tokens, current, expression, result, main_ERROR_FLAG>>
NextInterp == (\E e \in Trees : Interpreter_evaluate(e)) \/ Interpreter_report
SpecInterp == Init /\ [][NextInterp]_vars

(* ---- the reporting functions of error.rs and main.rs on their own ---- *)
\* Arguments of the calls.  stderr holds what the current call wrote.
ReportLines == 1..MaxLine
ReportMessages == {"msg", "Unterminated string."}
ReportWheres == {"at end of input", "at '+'"}
ReportTokens ==
    {Token("Plus", "+", LitNone, line) : line \in ReportLines}
    \cup {Token("Eof", "", LitNone, line) : line \in ReportLines}
ApiCall ==
    /\ pc \in {"start", "reported"}
    /\ pc' = "reported"
    /\ UNCHANGED <<mode, source, tokens, current, expression, result, stdout>>
\* error::report_error(line, Some(where), message); where = "" stands for None
Error_report_error(line, where, message) ==
    /\ ApiCall
    /\ stderr' = <<Diagnostic(line, where, message)>>
    /\ error_ERROR_FLAG' = TRUE
    /\ UNCHANGED <<main_ERROR_FLAG, RUNTIME_ERROR_FLAG>>
\* error::lox_generic_error: report_error(line, None, message)
Error_lox_generic_error(line, message) ==
    /\ ApiCall
    /\ stderr' = <<Diagnostic(line, "", message)>>
    /\ error_ERROR_FLAG' = TRUE
    /\ UNCHANGED <<main_ERROR_FLAG, RUNTIME_ERROR_FLAG>>
\* error::parse_error, the twin of Parser::parse_error
Error_parse_error(token, message) ==
    /\ ApiCall
    /\ stderr' = <<parse_error(token, message)>>
    /\ error_ERROR_FLAG' = TRUE
    /\ UNCHANGED <<main_ERROR_FLAG, RUNTIME_ERROR_FLAG>>
\* error::runtime_error: lox_generic_error(error.token.line, &error.message),
\* then set_runtime_error_flag(true)
Error_runtime_error(error) ==
    /\ ApiCall
    /\ stderr' = <<Diagnostic(error.token.line, "", error.message)>>
    /\ error_ERROR_FLAG' = TRUE
    /\ RUNTIME_ERROR_FLAG' = TRUE
    /\ UNCHANGED main_ERROR_FLAG
\* error::set_error_flag(value)
Error_set_error_flag(value) ==
    /\ ApiCall
    /\ stderr' = <<>>
    /\ error_ERROR_FLAG' = value
    /\ UNCHANGED <<main_ERROR_FLAG, RUNTIME_ERROR_FLAG>>
\* main.rs: report_error(line, Some(where), message); where = "" stands for None
Main_report_error(line, where, message) ==
    /\ ApiCall
    /\ stderr' = <<Diagnostic(line, where, message)>>
    /\ main_ERROR_FLAG' = TRUE
    /\ UNCHANGED <<error_ERROR_FLAG, RUNTIME_ERROR_FLAG>>
\* main.rs: lox_generic_error: report_error(line, None, message)
Main_lox_generic_error(line, message) ==
    /\ ApiCall
    /\ stderr' = <<Diagnostic(line, "", message)>>
    /\ main_ERROR_FLAG' = TRUE
    /\ UNCHANGED <<error_ERROR_FLAG, RUNTIME_ERROR_FLAG>>
NextError ==
    \/ \E line \in ReportLines, where \in ReportWheres, message \in ReportMessages :
           Error_report_error(line, where, message)
    \/ \E line \in ReportLines, message \in ReportMessages :
           Error_lox_generic_error(line, message)
    \/ \E token \in ReportTokens, message \in ReportMessages :
           Error_parse_error(token, message)
    \/ \E token \in ReportTokens, message \in ReportMessages :
           Error_runtime_error(RuntimeError(message, token))
    \/ \E value \in BOOLEAN : Error_set_error_flag(value)
    \/ \E line \in ReportLines, where \in ReportWheres, message \in ReportMessages :
           Main_report_error(line, where, message)
    \/ \E line \in ReportLines, message \in ReportMessages :
           Main_lox_generic_error(line, message)
SpecError == Init /\ [][NextError]_vars

(* ---- the driver: main, run_repl, run ---- *)
\* str::trim: the characters with the Unicode property White_Space
Whitespace ==
    {"\t", "\n", "U+000B", "\f", "\r", " ", "U+0085", "U+00A0", "U+1680", "U+2000",
     "U+2001", "U+2002", "U+2003", "U+2004", "U+2005", "U+2006", "U+2007", "U+2008",
     "U+2009", "U+200A", "U+2028", "U+2029", "U+202F", "U+205F", "U+3000"}
RECURSIVE TrimStart(_)
TrimStart(chars) ==
    IF chars # <<>> /\ Head(chars) \in Whitespace THEN TrimStart(Tail(chars)) ELSE chars
RECURSIVE TrimEnd(_)
TrimEnd(chars) ==
    IF chars # <<>> /\ chars[Len(chars)] \in Whitespace
    THEN TrimEnd(SubSeq(chars, 1, Len(chars) - 1)) ELSE chars
Trim(chars) == TrimEnd(TrimStart(chars))

\* main: the match on args.len() (the program name counts).  stdout is taken
\* to be writable.
Main_repl(argc) ==
    /\ pc = "start"
    /\ argc = 1
    /\ pc' = "prompt"
    /\ mode' = "repl"
    /\ UNCHANGED <<source, tokens, current, expression, result, main_ERROR_FLAG,
                   error_ERROR_FLAG, RUNTIME_ERROR_FLAG, stdout, stderr>>
\* one argument: args.get(2) is None and expect panics before run_file
Main_file(argc) ==
    /\ pc = "start"
    /\ argc = 2
    /\ pc' = "panicked"
    /\ mode' = "file"
    /\ UNCHANGED <<source, tokens, current, expression, result, main_ERROR_FLAG,
                   error_ERROR_FLAG, RUNTIME_ERROR_FLAG, stdout, stderr>>
\* any other number of arguments: the usage line and exit code 64
Main_usage(argc) ==
    /\ pc = "start"
    /\ argc \notin {1, 2}
    /\ pc' = "exit64"
    /\ mode' = "usage"
    /\ stdout' = Append(stdout, Printed("main", "Usage: jlox [script]"))
    /\ UNCHANGED <<source, tokens, current, expression, result, main_ERROR_FLAG,
                   error_ERROR_FLAG, RUNTIME_ERROR_FLAG, stderr>>
\* run_repl: the prompt is printed and flushed before read_line waits.
\* stdout and stderr hold the output of the current iteration of the loop.
Repl_prompt ==
    /\ pc = "prompt"
    /\ pc' = "read"
    /\ stdout' = <<Printed("run_repl", "> ")>>
    /\ stderr' = <<>>
    /\ UNCHANGED <<mode, source, tokens, current, expression, result, main_ERROR_FLAG,
                   error_ERROR_FLAG, RUNTIME_ERROR_FLAG>>
\* run_repl: read_line, trim; run is entered with the trimmed line
Repl_read_line(line) ==
    /\ pc = "read"
    /\ pc' = "run"
    /\ source' = Trim(line \o <<"\n">>)
    /\ UNCHANGED <<mode, tokens, current, expression, result, main_ERROR_FLAG,
                   error_ERROR_FLAG, RUNTIME_ERROR_FLAG, stdout, stderr>>
\* run_repl: read_line returns 0 bytes at the end of stdin
Repl_eof ==
    /\ pc = "read"
    /\ pc' = "exit"
    /\ UNCHANGED <<mode, source, tokens, current, expression, result, main_ERROR_FLAG,
                   error_ERROR_FLAG, RUNTIME_ERROR_FLAG, stdout, stderr>>
\* run_repl: read_line(..)? is Err (stdin is not UTF-8); main prints the error
\* and exits with code 74
IoErrors == {"stream did not contain valid UTF-8"}
Repl_read_error(e) ==
    /\ pc = "read"
    /\ pc' = "exit74"
    /\ stderr' = Append(stderr, [raw |-> "Error while running REPL: " \o e])
    /\ UNCHANGED <<mode, source, tokens, current, expression, result, main_ERROR_FLAG,
                   error_ERROR_FLAG, RUNTIME_ERROR_FLAG, stdout>>
Run_scan ==
    /\ pc = "run"
    /\ DoScan
Run_parse ==
    /\ pc = "scanned"
    /\ DoParse
\* run: the check of get_error_flag(), then println!("{}", expression.expect(..))
Run_check ==
    /\ pc = "parsed"
    /\ IF main_ERROR_FLAG
       THEN pc' = "returned" /\ UNCHANGED stdout
       ELSE IF expression.some
       THEN /\ pc' = "returned"
            /\ stdout' = Append(stdout, Printed("run", format_ast(expression.expr)))
       ELSE pc' = "panicked" /\ UNCHANGED stdout
    /\ UNCHANGED <<mode, source, tokens, current, expression, result, main_ERROR_FLAG,
                   error_ERROR_FLAG, RUNTIME_ERROR_FLAG, stderr>>
\* run_repl: run has returned (its locals are gone); set_error_flag(false)
Repl_reset ==
    /\ pc = "returned"
    /\ mode = "repl"
    /\ pc' = "prompt"
    /\ main_ERROR_FLAG' = FALSE
    /\ source' = <<>>
    /\ tokens' = <<>>
    /\ current' = 0
    /\ expression' = [some |-> FALSE, expr |-> NoExpr]
    /\ UNCHANGED <<mode, result, error_ERROR_FLAG, RUNTIME_ERROR_FLAG, stdout, stderr>>

Next ==
    \/ \E argc \in ArgCounts : Main_repl(argc)
    \/ \E argc \in ArgCounts : Main_file(argc)
    \/ \E argc \in ArgCounts : Main_usage(argc)
    \/ Repl_prompt
    \/ \E line \in Lines : Repl_read_line(line)
    \/ Repl_eof
    \/ \E e \in IoErrors : Repl_read_error(e)
    \/ Run_scan
    \/ Run_parse
    \/ Run_check
    \/ Repl_reset
Spec == Init /\ [][Next]_vars

(***************************************************************************)
(* The claims.                                                             *)
(***************************************************************************)
ScannerDone == pc \in {"scanned", "panicked"}
ParserDone == pc \in {"parsed", "panicked", "stack_overflow"}
EvalDone == pc \in {"evaluated", "interpreted", "panicked"}

\* the canonical text of a runtime value (spec 4.3)
CanonicalText(v) ==
    CASE v.kind = "Nil" -> "nil"
      [] v.kind = "Boolean" -> (IF v.bool THEN "true" ELSE "false")
      [] v.kind = "Number" -> F64ToString(v.num)
      [] OTHER -> v.str
\* the values of the two operands of the Binary node under evaluation
IsBinary(types) == expression.expr.type = "Binary" /\ expression.expr.operator.token_type \in types
IsUnary(types) == expression.expr.type = "Unary" /\ expression.expr.operator.token_type \in types
LeftResult == evaluate(expression.expr.left)
RightResult == evaluate(expression.expr.right)
OperandsEvaluate == LeftResult.status = "Ok" /\ RightResult.status = "Ok"
IsNatNumber(v) == v.kind = "Number" /\ v.num.k = "fin" /\ v.num.d = 1 /\ ~v.num.neg

(* ---- C1 ---- *)
\* a source whose only '"' opens a string that nothing closes, outside a comment
OpensUnterminatedString(src) ==
    /\ Cardinality({i \in DOMAIN src : src[i] = "\""}) = 1
    /\ \A i \in DOMAIN src : src[i] # "/" /\ Utf8Len(src[i]) = 1
TextAfterQuote(src) ==
    LET q == CHOOSE i \in DOMAIN src : src[i] = "\""
    IN  Concat(SubSeq(src, q + 1, Len(src)))
\* C1: scanning a source whose string literal is never closed reports exactly
\* one "Unterminated string." diagnostic, still appends a STRING token holding
\* the captured text, and scan_tokens returns a token sequence ending in Eof.
C1_UnterminatedStringScans ==
    (ScannerDone /\ OpensUnterminatedString(source)) =>
        /\ pc = "scanned"
        /\ Cardinality({i \in DOMAIN stderr : stderr[i].message = "Unterminated string."}) = 1
        /\ tokens # <<>>
        /\ tokens[Len(tokens)].token_type = "Eof"
        /\ \E i \in DOMAIN tokens :
               /\ tokens[i].token_type = "String"
               /\ tokens[i].literal = LitString(TextAfterQuote(source))

(* ---- C2 ---- *)
IsGroupOfLiteral(toks) ==
    /\ Len(toks) = 4
    /\ toks[1].token_type = "LeftParen"
    /\ toks[2] \in LiteralTokens
    /\ toks[3].token_type = "RightParen"
\* C2: a token sequence ( e ) followed by further tokens parses, the parser
\* terminating, to Grouping{e} with the cursor on the token after the matching
\* ")"; (1 + 2) * 3 parses as Binary(*, Grouping(Binary(+, 1, 2)), 3) and
\* evaluates to Number(9).
C2_GroupingParses ==
    ParserDone =>
        /\ IsGroupOfLiteral(tokens) =>
               /\ pc = "parsed"
               /\ expression = [some |-> TRUE,
                                expr |-> ExprGrouping(ExprLiteral(tokens[2].literal))]
               /\ current = 3
        /\ tokens = Append(OnePlusTwoTimesThree, EofToken) =>
               /\ pc = "parsed"
               /\ expression = [some |-> TRUE, expr |-> Example9]
               /\ evaluate(expression.expr) = EOk(VNumber(Num(9)))

(* ---- C3 ---- *)
\* truthiness as the spec states it: only nil and false are falsy
SpecTruthy(v) == ~(v.kind = "Nil" \/ (v.kind = "Boolean" /\ ~v.bool))
\* C3: Unary ! on an operand that evaluates to v returns Boolean(not truthy(v)),
\* where truthy(v) is false exactly for Nil and Boolean(false).
C3_BangNegatesTruthiness ==
    (EvalDone /\ IsUnary({"Bang"}) /\ RightResult.status = "Ok") =>
        result = EOk(VBoolean(~SpecTruthy(RightResult.value)))

(* ---- C4 ---- *)
\* token sequences that are certainly no expression: the empty input, and an
\* input whose last token before Eof is an operator
EndsInOperatorOrEmpty(toks) ==
    \/ Len(toks) = 1
    \/ Len(toks) > 1 /\ toks[Len(toks) - 1] \in BinaryTokens \cup UnaryTokens
\* C4: for a token sequence that is not a valid expression (the empty input and
\* `1 +` included) parse reports exactly one diagnostic, sets the syntax-error
\* flag, runs synchronise and returns None, without aborting the process.
C4_InvalidInputYieldsNone ==
    (ParserDone /\ EndsInOperatorOrEmpty(tokens)) =>
        /\ pc = "parsed"
        /\ ~expression.some
        /\ Len(stderr) = 1
        /\ main_ERROR_FLAG

(* ---- C5 ---- *)
ResultPrinted == \E i \in DOMAIN stdout : stdout[i].by = "run"
\* C5: if the scanner or the parser reported a diagnostic while run processed an
\* input unit, the flag run checks after parsing is set and run returns without
\* printing a result for that unit.
C5_DiagnosticGatesResult ==
    (pc = "returned" /\ stderr # <<>>) => (main_ERROR_FLAG /\ ~ResultPrinted)

(* ---- C6 ---- *)
\* C6: in the REPL, when a line starts being scanned every syntax-error flag
\* the scanner, the parser or the driver sets or reads is false, whatever the
\* earlier lines reported.
C6_FlagsClearAtLineStart ==
    (mode = "repl" /\ pc = "run") => (~main_ERROR_FLAG /\ ~error_ERROR_FLAG)

(* ---- C7 ---- *)
\* the precedence levels of the grammar (spec 4.2), lowest first
SpecLevel(token_type) ==
    CASE token_type \in {"BangEqual", "EqualEqual"} -> 1
      [] token_type \in {"Greater", "GreaterEqual", "Less", "LessEqual"} -> 2
      [] token_type \in {"Plus", "Minus"} -> 3
      [] OTHER -> 4
IsChain(toks) ==
    /\ Len(toks) = 6
    /\ toks[1] \in LiteralTokens /\ toks[3] \in LiteralTokens /\ toks[5] \in LiteralTokens
    /\ toks[2] \in BinaryTokens /\ toks[4] \in BinaryTokens
PrecedenceTree(toks) ==
    LET a == ExprLiteral(toks[1].literal)
        b == ExprLiteral(toks[3].literal)
        c == ExprLiteral(toks[5].literal)
    IN  IF SpecLevel(toks[2].token_type) < SpecLevel(toks[4].token_type)
        THEN ExprBinary(a, toks[2], ExprBinary(b, toks[4], c))
        ELSE ExprBinary(ExprBinary(a, toks[2], b), toks[4], c)
\* C7: for literals a, b, c and binary operators op1, op2 of two different
\* precedence levels, a op1 b op2 c parses to the tree in which the node of the
\* higher-precedence operator is an operand of the node of the lower one.
C7_PrecedenceShapesTree ==
    (ParserDone /\ IsChain(tokens)
       /\ SpecLevel(tokens[2].token_type) # SpecLevel(tokens[4].token_type)) =>
        /\ pc = "parsed"
        /\ expression = [some |-> TRUE, expr |-> PrecedenceTree(tokens)]
\* a + b * c has been parsed with the product as the sum's right operand
C7_Witness ==
    /\ pc = "parsed"
    /\ IsChain(tokens)
    /\ tokens[2].token_type = "Plus" /\ tokens[4].token_type = "Star"
    /\ expression.some
    /\ expression.expr.operator.token_type = "Plus"
    /\ expression.expr.right.type = "Binary"
    /\ expression.expr.right.operator.token_type = "Star"

(* ---- C8 ---- *)
\* C8: Binary + on two Numbers is their sum, on two Strings their
\* concatenation, and on every other pair of variants a RuntimeError that
\* carries the + token and names both operand values.
C8_PlusAddsOrConcatenates ==
    (EvalDone /\ IsBinary({"Plus"}) /\ OperandsEvaluate) =>
        LET l == LeftResult.value
            r == RightResult.value
        IN  IF l.kind = "Number" /\ r.kind = "Number"
            THEN /\ result.status = "Ok"
                 /\ result.value.kind = "Number"
                 /\ (IsNatNumber(l) /\ IsNatNumber(r)) =>
                        result.value = VNumber(Num(l.num.n + r.num.n))
            ELSE IF l.kind = "String" /\ r.kind = "String"
            THEN result = EOk(VString(l.str \o r.str))
            ELSE /\ result.status = "Err"
                 /\ result.token = expression.expr.operator
                 /\ result.message = "Operands '" \o CanonicalText(l) \o "' and '"
                        \o CanonicalText(r) \o "' must both be numbers or strings."
\* "a" + 1 has been evaluated to a runtime error
C8_Witness ==
    /\ pc = "evaluated"
    /\ IsBinary({"Plus"})
    /\ expression.expr.left = ExprLiteral(LitString("a"))
    /\ expression.expr.right = Lit1
    /\ result.status = "Err"

(* ---- C9 ---- *)
\* equality of two runtime values as the spec states it: the same variant with
\* equal payload, numbers compared as IEEE 754 numbers
SpecEqual(l, r) ==
    /\ l.kind = r.kind
    /\ CASE l.kind = "Number" ->
                /\ ~IsNaN(l.num) /\ ~IsNaN(r.num)
                /\ l.num = r.num \/ (IsZero(l.num) /\ IsZero(r.num))
         [] l.kind = "String" -> l.str = r.str
         [] l.kind = "Boolean" -> l.bool = r.bool
         [] OTHER -> TRUE
\* C9: Binary == is Boolean(true) exactly when both values are of the same
\* variant with equal payload, != is its negation, neither returns a
\* RuntimeError; 1 == "1" is false and 1 == 1.0 is true.
C9_EqualityIsStructural ==
    (EvalDone /\ IsBinary({"EqualEqual", "BangEqual"}) /\ OperandsEvaluate) =>
        /\ result = EOk(VBoolean(
               IF expression.expr.operator.token_type = "EqualEqual"
               THEN SpecEqual(LeftResult.value, RightResult.value)
               ELSE ~SpecEqual(LeftResult.value, RightResult.value)))
        /\ expression.expr = OneEqualsOnePointZero => result = EOk(VBoolean(TRUE))
\* 1 == "1" has been evaluated to false
C9_Witness ==
    /\ pc = "evaluated"
    /\ IsBinary({"EqualEqual"})
    /\ expression.expr.left = Lit1
    /\ expression.expr.right = ExprLiteral(LitString("1"))
    /\ result = EOk(VBoolean(FALSE))

(* ---- C10 ---- *)
ArithmeticTypes == {"Minus", "Slash", "Star"}
ComparisonTypes == {"Greater", "GreaterEqual", "Less", "LessEqual"}
\* C10: a numeric-only operator (unary -, binary - / * > >= < <=) applied to an
\* operand that is not a Number returns a RuntimeError carrying the operator's
\* token and a message naming the operand values, never a value or a panic;
\* applied to Numbers it returns a Number (arithmetic) or a Boolean (comparison).
C10_NumericOperatorsCheckOperands ==
    /\ (EvalDone /\ IsUnary({"Minus"}) /\ RightResult.status = "Ok") =>
           IF RightResult.value.kind = "Number"
           THEN result.status = "Ok" /\ result.value.kind = "Number"
           ELSE /\ result.status = "Err"
                /\ result.token = expression.expr.operator
                /\ result.token.line = expression.expr.operator.line
                /\ result.message = "Operand '" \o CanonicalText(RightResult.value)
                       \o "' must be a number to apply 'Minus - None' operator"
    /\ (EvalDone /\ IsBinary(ArithmeticTypes \cup ComparisonTypes) /\ OperandsEvaluate) =>
           IF LeftResult.value.kind = "Number" /\ RightResult.value.kind = "Number"
           THEN /\ result.status = "Ok"
                /\ result.value.kind =
                       IF expression.expr.operator.token_type \in ArithmeticTypes
                       THEN "Number" ELSE "Boolean"
           ELSE /\ result.status = "Err"
                /\ result.token = expression.expr.operator
                /\ result.message = "Operands '" \o CanonicalText(LeftResult.value)
                       \o "' and '" \o CanonicalText(RightResult.value)
                       \o "' must both be numbers."
\* 1 < "a" has been evaluated to a runtime error carrying the < token
C10_Witness ==
    /\ pc = "evaluated"
    /\ IsBinary({"Less"})
    /\ expression.expr.left = Lit1
    /\ expression.expr.right = ExprLiteral(LitString("a"))
    /\ result.status = "Err"
    /\ result.token.token_type = "Less"

(* ---- C11 ---- *)
Newlines(chars) == Cardinality({i \in DOMAIN chars : chars[i] = "\n"})
EofPositions == {i \in DOMAIN tokens : tokens[i].token_type = "Eof"}
\* C11: the token sequence scan_tokens returns contains exactly one Eof token,
\* that token is the last element, and its line is 1 plus the number of newline
\* characters of the source.
C11_OneEofLastOnFinalLine ==
    pc = "scanned" =>
        /\ tokens # <<>>
        /\ EofPositions = {Len(tokens)}
        /\ tokens[Len(tokens)].line = 1 + Newlines(source)
\* a source with a newline and at least one token before Eof has been scanned
C11_Witness ==
    /\ pc = "scanned"
    /\ Newlines(source) > 0
    /\ Len(tokens) > 1
    /\ tokens[Len(tokens)].line > 1

(* ---- C12 ---- *)
\* the parser's cursor is an index from 0; the Eof token is the last token
EofIndex == Len(tokens) - 1
StoppedAfterSemicolon == current >= 1 /\ tokens[current].token_type = "Semicolon"
StoppedOnKeywordOrEof ==
    tokens[current + 1].token_type \in
        {"Class", "Fun", "Var", "For", "If", "While", "Print", "Return", "Eof"}
\* C12: synchronise, entered after a reported error at any cursor position up
\* to and including the Eof token, terminates with the cursor no further than
\* the Eof token, and where it stops the previously consumed token is ; or the
\* current token is a statement keyword or Eof.
C12_SynchroniseStopsInRange ==
    (ParserDone /\ stderr # <<>>) =>
        /\ pc = "parsed"
        /\ current <= EofIndex
        /\ StoppedAfterSemicolon \/ StoppedOnKeywordOrEof

(* ---- C13 ---- *)
\* where each token pushed by add_token_with_value started, as an index from 0
LexemeStarts == scan_tokens(ScannerNew(source)).starts
IsAscii(chars) == \A i \in DOMAIN chars : Utf8Len(chars[i]) = 1
\* C13: every token the scanner emits records the line on which its lexeme
\* starts, 1 plus the number of newline characters before the lexeme's first
\* character; a STRING token spanning several lines records the line of its
\* opening quote.
C13_TokenLineIsStartLine ==
    (ScannerDone /\ IsAscii(source)) =>
        \A i \in DOMAIN LexemeStarts :
            tokens[i].line = 1 + Newlines(SubSeq(source, 1, LexemeStarts[i]))

(* ---- C14 ---- *)
\* literals and binary operators of one precedence level alternating, then Eof
IsLevelChain(toks) ==
    /\ Len(toks) >= 6 /\ Len(toks) % 2 = 0
    /\ \A i \in 1..(Len(toks) - 1) :
           IF i % 2 = 1 THEN toks[i] \in LiteralTokens
           ELSE /\ toks[i] \in BinaryTokens
                /\ SpecLevel(toks[i].token_type) = SpecLevel(toks[2].token_type)
\* the left-leaning tree of the first n operators of the chain
RECURSIVE LeftLeaning(_, _)
LeftLeaning(toks, n) ==
    IF n = 0 THEN ExprLiteral(toks[1].literal)
    ELSE ExprBinary(LeftLeaning(toks, n - 1), toks[2 * n], ExprLiteral(toks[2 * n + 1].literal))
\* C14: every binary level is left-associative: a op1 b op2 c with op1, op2 of
\* one level parses to Binary(op2, Binary(op1, a, b), c), each Binary node
\* stores the operator token consumed between its operands, and a chain of n
\* operators of one level gives a left-leaning tree of depth n.
C14_LeftAssociative ==
    (ParserDone /\ IsLevelChain(tokens)) =>
        /\ pc = "parsed"
        /\ expression = [some |-> TRUE,
                         expr |-> LeftLeaning(tokens, (Len(tokens) - 2) \div 2)]
\* 1 - 1 + 1 - 1 has been parsed into a tree whose left child holds the + node
C14_Witness ==
    /\ pc = "parsed"
    /\ IsLevelChain(tokens)
    /\ Len(tokens) = 8
    /\ tokens[2].token_type = "Minus" /\ tokens[4].token_type = "Plus"
    /\ expression.some
    /\ expression.expr.left.type = "Binary"
    /\ expression.expr.left.operator.token_type = "Plus"
    /\ expression.expr.left.left.operator.token_type = "Minus"

(* ---- C15 ---- *)
\* positions holding a character that starts no token; sources with a quote or
\* a slash are left out, as a string or a comment may hold such a character
UnexpectedPositions(src) == {i \in DOMAIN src : src[i] \in {"@", "U+00E9", "U+20AC"}}
OutsideStringAndComment(src) == \A i \in DOMAIN src : src[i] \notin {"\"", "/"}
Blanked(src) == [i \in DOMAIN src |-> IF i \in UnexpectedPositions(src) THEN " " ELSE src[i]]
\* C15: for every character that starts no token, ASCII or not, wherever it
\* occurs, the scanner reports one "Unexpected character" diagnostic, emits no
\* token for it, and goes on scanning: the tokens are those of the source
\* without that character, Eof last, and the scanner does not abort.
C15_UnexpectedCharacterIsSkipped ==
    (ScannerDone /\ OutsideStringAndComment(source) /\ UnexpectedPositions(source) # {}) =>
        /\ pc = "scanned"
        /\ Len(stderr) = Cardinality(UnexpectedPositions(source))
        /\ \A i \in DOMAIN stderr :
               \E j \in UnexpectedPositions(source) :
                   stderr[i].message = "Unexpected character '" \o source[j] \o "'"
        /\ tokens = scan_tokens(ScannerNew(Blanked(source))).tokens
        /\ tokens[Len(tokens)].token_type = "Eof"

(* ---- C16 ---- *)
\* C16: the two diagnostic flags are independent: a step that reports a
\* runtime error (error::runtime_error) sets the runtime-error flag and leaves
\* the syntax-error flags unchanged, and a step that reports a lexer or parser
\* error sets a syntax-error flag and leaves the runtime-error flag unchanged.
C16_FlagsIndependent ==
    [][/\ RUNTIME_ERROR_FLAG' # RUNTIME_ERROR_FLAG =>
              UNCHANGED <<error_ERROR_FLAG, main_ERROR_FLAG>>
       /\ (error_ERROR_FLAG' # error_ERROR_FLAG \/ main_ERROR_FLAG' # main_ERROR_FLAG) =>
              UNCHANGED RUNTIME_ERROR_FLAG]_vars

(* ---- C17 ---- *)
\* a literal followed by a token that continues no expression, e.g. 1 2 or 1 )
LiteralThenStray(toks) ==
    /\ Len(toks) >= 3
    /\ toks[1] \in LiteralTokens
    /\ toks[2] \in LiteralTokens \cup {ScanOne(<<")">>)}
\* C17: whenever parse returns a tree the cursor is on the Eof token, every
\* token before Eof having been consumed into the tree; a valid expression
\* followed by further tokens before Eof yields a diagnostic and None.
C17_SomeOnlyAtEof ==
    ParserDone =>
        /\ expression.some =>
               /\ current = EofIndex
               /\ tokens[current + 1].token_type = "Eof"
        /\ LiteralThenStray(tokens) =>
               /\ pc = "parsed"
               /\ ~expression.some
               /\ stderr # <<>>

====
